---- MODULE Spec2Model ----
(***************************************************************************)
(* Model of the two ONNX preprocessing scripts of wavespeed-desktop:       *)
(*   scripts/extract_emap.py  (matrix extractor)                           *)
(*   scripts/patch_det10g.py  (ceil_mode attribute patcher)                *)
(*                                                                         *)
(* Python strings on which the scripts compute (paths, initializer names)  *)
(* are sequences of one-character strings.  A file is a sequence of        *)
(* tokens; onnx.save / onnx.load are an encoder and a recursive-descent    *)
(* decoder over such sequences, so a truncated file does not decode.       *)
(***************************************************************************)
EXTENDS Integers, Sequences, FiniteSets, TLC

VARIABLES
    files,          \* file system: existing path -> content (token sequence)
    remote,         \* bytes served at the tool's MODEL_URL
    tool,           \* "patch" (patch_det10g.py) or "extract" (extract_emap.py)
    pc,             \* position of the process in main
    argv,           \* sys.argv[1:]
    input_path,     \* main: input_path
    output_path,    \* main: output_path
    fetched,        \* download_model: tokens written to the file so far
    model,          \* the graph held in memory after onnx.load (and patching)
    patch_count,    \* patch_ceil_mode: patch_count
    emap,           \* extract_emap: the returned array (and where it was found)
    err,            \* the exception / error that ended the run, "none" otherwise
    exit_code,      \* process exit status, -1 while the process runs
    files0,         \* history: the file system when the run started
    source,         \* history: the graph decoded by the last onnx.load
    downloadCalled, \* history: download_model was called in this run
    loadCalled,     \* history: onnx.load was called in this run
    existed,        \* history: result of os.path.exists at the existence check
    saved,          \* history: the run wrote its output file
    outputs,        \* history: path of each unmodified patcher output -> the
                    \*          graph the run that wrote it had loaded
    origin          \* history: that graph for the run's input, if it is such an output

vars == <<files, remote, tool, pc, argv, input_path, output_path, fetched,
          model, patch_count, emap, err, exit_code, files0, source,
          downloadCalled, loadCalled, existed, saved, outputs, origin>>

-----------------------------------------------------------------------------
(* Bounds of the model *)

\* most nodes in a generated graph
MaxNodes == 2
\* most attributes in a generated graph, all nodes together
MaxAttrs == 2
\* most initializers in a generated graph
MaxInits == 2
\* tokens of a file that one chunk of response.iter_content carries
ChunkTokens == 2

(* Program constants *)

\* the EMAP dimension tested by the shape check
EmapDim == 512
\* bytes of one numpy float32 element
Float32Bytes == 4

-----------------------------------------------------------------------------
(* Python strings *)

LowerChar(c) ==
    CASE c = "A" -> "a" [] c = "B" -> "b" [] c = "C" -> "c" [] c = "D" -> "d"
      [] c = "E" -> "e" [] c = "F" -> "f" [] c = "G" -> "g" [] c = "H" -> "h"
      [] c = "I" -> "i" [] c = "J" -> "j" [] c = "K" -> "k" [] c = "L" -> "l"
      [] c = "M" -> "m" [] c = "N" -> "n" [] c = "O" -> "o" [] c = "P" -> "p"
      [] c = "Q" -> "q" [] c = "R" -> "r" [] c = "S" -> "s" [] c = "T" -> "t"
      [] c = "U" -> "u" [] c = "V" -> "v" [] c = "W" -> "w" [] c = "X" -> "x"
      [] c = "Y" -> "y" [] c = "Z" -> "z" [] OTHER -> c

\* str.lower()
Lower(s) == [k \in 1..Len(s) |-> LowerChar(s[k])]

\* sub in s
Contains(s, sub) ==
    \E k \in 1..(Len(s) - Len(sub) + 1) : SubSeq(s, k, k + Len(sub) - 1) = sub

\* s.replace(old, new): every non-overlapping occurrence, left to right
RECURSIVE Replace(_, _, _)
Replace(s, old, new) ==
    IF Len(s) < Len(old) THEN s
    ELSE IF SubSeq(s, 1, Len(old)) = old
         THEN new \o Replace(SubSeq(s, Len(old) + 1, Len(s)), old, new)
         ELSE <<Head(s)>> \o Replace(Tail(s), old, new)

DOT_ONNX == <<".", "o", "n", "n", "x">>
PATCHED_ONNX == <<"_", "p", "a", "t", "c", "h", "e", "d", ".", "o", "n", "n", "x">>

\* "det_10g.onnx"
DET_INPUT == <<"d", "e", "t", "_", "1", "0", "g">> \o DOT_ONNX
\* "det_10g_patched.onnx"
DET_OUTPUT == <<"d", "e", "t", "_", "1", "0", "g">> \o PATCHED_ONNX
\* "inswapper_128.onnx"
SWAP_INPUT == <<"i", "n", "s", "w", "a", "p", "p", "e", "r", "_", "1", "2", "8">> \o DOT_ONNX
\* "emap.bin"
EMAP_BIN == <<"e", "m", "a", "p", ".", "b", "i", "n">>

\* emap_names = ['emap', 'Emap', 'EMAP', 'e_map', 'embedding_map']
emap_names ==
    { <<"e", "m", "a", "p">>, <<"E", "m", "a", "p">>, <<"E", "M", "A", "P">>,
      <<"e", "_", "m", "a", "p">>,
      <<"e", "m", "b", "e", "d", "d", "i", "n", "g", "_", "m", "a", "p">> }

-----------------------------------------------------------------------------
(* Files: token sequences, and the encoding of a model (onnx.save, onnx.load) *)

Tok(tag, s, cs, n) == [tag |-> tag, s |-> s, cs |-> cs, n |-> n]

RECURSIVE Flatten(_)
Flatten(ss) == IF ss = <<>> THEN <<>> ELSE Head(ss) \o Flatten(Tail(ss))

SerializeNode(nd) ==
    <<Tok("node", nd.op_type, <<>>, Len(nd.attribute))>>
    \o [k \in 1..Len(nd.attribute) |->
            Tok("attr", nd.attribute[k].name, <<>>, nd.attribute[k].i)]

SerializeInitializer(t) ==
    <<Tok("init", t.data_type, t.name, Len(t.dims))>>
    \o [k \in 1..Len(t.dims) |-> Tok("dim", "", <<>>, t.dims[k])]

\* onnx.save: the bytes of a model; the header carries the element counts
Serialize(m) ==
    <<Tok("graph", "", <<>>, Len(m.graph.node)),
      Tok("initializers", "", <<>>, Len(m.graph.initializer))>>
    \o Flatten([k \in 1..Len(m.graph.node) |-> SerializeNode(m.graph.node[k])])
    \o Flatten([k \in 1..Len(m.graph.initializer) |->
                    SerializeInitializer(m.graph.initializer[k])])

ParseFail == [ok |-> FALSE, val |-> <<>>, pos |-> 0]

RECURSIVE ParseAttrs(_, _, _)
ParseAttrs(b, pos, k) ==
    IF k = 0 THEN [ok |-> TRUE, val |-> <<>>, pos |-> pos]
    ELSE IF pos > Len(b) THEN ParseFail
    ELSE IF b[pos].tag # "attr" THEN ParseFail
    ELSE LET r == ParseAttrs(b, pos + 1, k - 1)
         IN  IF r.ok
             THEN [ok |-> TRUE,
                   val |-> <<[name |-> b[pos].s, i |-> b[pos].n]>> \o r.val,
                   pos |-> r.pos]
             ELSE ParseFail

RECURSIVE ParseNodes(_, _, _)
ParseNodes(b, pos, k) ==
    IF k = 0 THEN [ok |-> TRUE, val |-> <<>>, pos |-> pos]
    ELSE IF pos > Len(b) THEN ParseFail
    ELSE IF b[pos].tag # "node" THEN ParseFail
    ELSE LET a == ParseAttrs(b, pos + 1, b[pos].n)
         IN  IF ~a.ok THEN ParseFail
             ELSE LET r == ParseNodes(b, a.pos, k - 1)
                  IN  IF r.ok
                      THEN [ok |-> TRUE,
                            val |-> <<[op_type |-> b[pos].s, attribute |-> a.val]>> \o r.val,
                            pos |-> r.pos]
                      ELSE ParseFail

RECURSIVE ParseDims(_, _, _)
ParseDims(b, pos, k) ==
    IF k = 0 THEN [ok |-> TRUE, val |-> <<>>, pos |-> pos]
    ELSE IF pos > Len(b) THEN ParseFail
    ELSE IF b[pos].tag # "dim" THEN ParseFail
    ELSE LET r == ParseDims(b, pos + 1, k - 1)
         IN  IF r.ok
             THEN [ok |-> TRUE, val |-> <<b[pos].n>> \o r.val, pos |-> r.pos]
             ELSE ParseFail

RECURSIVE ParseInitializers(_, _, _)
ParseInitializers(b, pos, k) ==
    IF k = 0 THEN [ok |-> TRUE, val |-> <<>>, pos |-> pos]
    ELSE IF pos > Len(b) THEN ParseFail
    ELSE IF b[pos].tag # "init" THEN ParseFail
    ELSE LET d == ParseDims(b, pos + 1, b[pos].n)
         IN  IF ~d.ok THEN ParseFail
             ELSE LET r == ParseInitializers(b, d.pos, k - 1)
                  IN  IF r.ok
                      THEN [ok |-> TRUE,
                            val |-> <<[name |-> b[pos].cs, dims |-> d.val,
                                       data_type |-> b[pos].s]>> \o r.val,
                            pos |-> r.pos]
                      ELSE ParseFail

EmptyModel == [graph |-> [node |-> <<>>, initializer |-> <<>>]]

\* onnx.load: decode the bytes of a file; a message with no bytes decodes to
\* the empty model, anything else must be a complete encoding
Parse(b) ==
    IF b = <<>> THEN [ok |-> TRUE, model |-> EmptyModel]
    ELSE IF Len(b) < 2 THEN [ok |-> FALSE, model |-> EmptyModel]
    ELSE IF b[1].tag # "graph" \/ b[2].tag # "initializers"
         THEN [ok |-> FALSE, model |-> EmptyModel]
    ELSE LET ns == ParseNodes(b, 3, b[1].n)
         IN  IF ~ns.ok THEN [ok |-> FALSE, model |-> EmptyModel]
             ELSE LET is == ParseInitializers(b, ns.pos, b[2].n)
                  IN  IF is.ok /\ is.pos = Len(b) + 1
                      THEN [ok |-> TRUE,
                            model |-> [graph |-> [node |-> ns.val,
                                                  initializer |-> is.val]]]
                      ELSE [ok |-> FALSE, model |-> EmptyModel]

-----------------------------------------------------------------------------
(* extract_emap.py *)

NoEmap == [found |-> FALSE, index |-> 0, by |-> "", shape |-> <<>>, dtype |-> ""]

\* initializer.name in emap_names or 'emap' in initializer.name.lower()
NameMatch(initializer) ==
    \/ initializer.name \in emap_names
    \/ Contains(Lower(initializer.name), <<"e", "m", "a", "p">>)

\* len(shape) == 2 and shape[0] == 512 and shape[1] == 512
ShapeMatch(initializer) ==
    LET shape == initializer.dims
    IN  Len(shape) = 2 /\ shape[1] = EmapDim /\ shape[2] = EmapDim

\* onnx.numpy_helper.to_array: an array of the initializer's shape and type
to_array(initializer) == [shape |-> initializer.dims, dtype |-> initializer.data_type]

\* a variant that never looks at the last initializer
RECURSIVE FindEmapShort(_, _)
FindEmapShort(initializers, k) ==
    IF k >= Len(initializers) THEN NoEmap
    ELSE IF NameMatch(initializers[k])
         THEN [found |-> TRUE, index |-> k, by |-> "name",
               shape |-> to_array(initializers[k]).shape,
               dtype |-> to_array(initializers[k]).dtype]
    ELSE IF ShapeMatch(initializers[k])
         THEN [found |-> TRUE, index |-> k, by |-> "shape",
               shape |-> to_array(initializers[k]).shape,
               dtype |-> to_array(initializers[k]).dtype]
    ELSE FindEmapShort(initializers, k + 1)

\* the loop of extract_emap from the k-th initializer on: one pass, the name
\* test and then the shape test on each initializer, return at the first hit
RECURSIVE FindEmap(_, _)
FindEmap(initializers, k) ==
    IF k > Len(initializers) THEN NoEmap
    ELSE IF NameMatch(initializers[k])
         THEN [found |-> TRUE, index |-> k, by |-> "name",
               shape |-> to_array(initializers[k]).shape,
               dtype |-> to_array(initializers[k]).dtype]
    ELSE IF ShapeMatch(initializers[k])
         THEN [found |-> TRUE, index |-> k, by |-> "shape",
               shape |-> to_array(initializers[k]).shape,
               dtype |-> to_array(initializers[k]).dtype]
    ELSE FindEmap(initializers, k + 1)

RECURSIVE Product(_)
Product(shape) == IF shape = <<>> THEN 1 ELSE Head(shape) * Product(Tail(shape))

\* extract_emap(model_path) on file system fs: load, then search
extract_emap(fs, model_path) ==
    LET ld == Parse(fs[model_path])
    IN  IF ~ld.ok
        THEN [raised |-> "ModelLoadError", source |-> EmptyModel, emap |-> NoEmap]
        ELSE LET e == FindEmap(ld.model.graph.initializer, 1)
             IN  [raised |-> IF e.found THEN "none" ELSE "ValueError",
                  source |-> ld.model, emap |-> e]

\* the bytes save_binary writes: emap.astype(np.float32).tobytes(), one token
\* standing for that many bytes of element data, nothing before or after it
save_binary(e) == <<Tok("raw", "float32", <<>>, Float32Bytes * Product(e.shape))>>

-----------------------------------------------------------------------------
(* patch_det10g.py *)

\* index of the first attribute named ceil_mode at or after i, 0 if none
RECURSIVE FirstCeilMode(_, _)
FirstCeilMode(attribute, i) ==
    IF i > Len(attribute) THEN 0
    ELSE IF attribute[i].name = "ceil_mode" THEN i
    ELSE FirstCeilMode(attribute, i + 1)

\* del node.attribute[i]
DelAt(attribute, i) ==
    SubSeq(attribute, 1, i - 1) \o SubSeq(attribute, i + 1, Len(attribute))

\* a variant without the op_type test
PatchNodeAnyOp(node) ==
    LET i == FirstCeilMode(node.attribute, 1)
    IN  IF i > 0
        THEN [node |-> [node EXCEPT !.attribute = DelAt(@, i)], patched |-> 1]
        ELSE [node |-> node, patched |-> 0]

\* a variant that deletes every ceil_mode entry of the node
PatchNodeAll(node) ==
    IF node.op_type = "AveragePool" /\ FirstCeilMode(node.attribute, 1) > 0
    THEN [node |-> [node EXCEPT !.attribute =
                        SelectSeq(@, LAMBDA a : a.name # "ceil_mode")],
          patched |-> 1]
    ELSE [node |-> node, patched |-> 0]

\* a variant that counts the node and leaves the attribute in place
PatchNodeKeep(node) ==
    IF node.op_type = "AveragePool" /\ FirstCeilMode(node.attribute, 1) > 0
    THEN [node |-> node, patched |-> 1]
    ELSE [node |-> node, patched |-> 0]

\* the body of the loop over model.graph.node for one node
PatchNode(node) ==
    IF node.op_type = "AveragePool"
    THEN LET i == FirstCeilMode(node.attribute, 1)
         IN  IF i > 0
             THEN [node |-> [node EXCEPT !.attribute = DelAt(@, i)], patched |-> 1]
             ELSE [node |-> node, patched |-> 0]
    ELSE [node |-> node, patched |-> 0]

\* for node in model.graph.node: ...
RECURSIVE PatchNodes(_)
PatchNodes(nodes) ==
    IF nodes = <<>> THEN [node |-> <<>>, patch_count |-> 0]
    ELSE LET h == PatchNode(Head(nodes))
             r == PatchNodes(Tail(nodes))
         IN  [node |-> <<h.node>> \o r.node, patch_count |-> h.patched + r.patch_count]

ShouldSaveAlways(count) == TRUE

\* if patch_count > 0: onnx.save(model, output_path)
ShouldSave(count) == count > 0

Write(fs, path, content) ==
    [q \in (DOMAIN fs) \cup {path} |-> IF q = path THEN content ELSE fs[q]]

Remove(fs, path) == [q \in (DOMAIN fs) \ {path} |-> fs[q]]

\* patch_ceil_mode(model_path, out_path) on file system fs
patch_ceil_mode(fs, model_path, out_path) ==
    LET ld == Parse(fs[model_path])
    IN  IF ~ld.ok
        THEN [raised |-> "ModelLoadError", source |-> EmptyModel, model |-> EmptyModel,
              patch_count |-> 0, saved |-> FALSE, fs |-> fs]
        ELSE LET p == PatchNodes(ld.model.graph.node)
                 m == [ld.model EXCEPT !.graph.node = p.node]
             IN  [raised |-> "none", source |-> ld.model, model |-> m,
                  patch_count |-> p.patch_count,
                  saved |-> ShouldSave(p.patch_count),
                  fs |-> IF ShouldSave(p.patch_count)
                         THEN Write(fs, out_path, Serialize(m))
                         ELSE fs]

-----------------------------------------------------------------------------
(* main of both tools *)

Tools == {"patch", "extract"}

DefaultInput(t) == IF t = "patch" THEN DET_INPUT ELSE SWAP_INPUT

DefaultOutput(t) == IF t = "patch" THEN DET_OUTPUT ELSE EMAP_BIN

\* the argument handling of main; args is sys.argv[1:]
ResolvePaths(t, args) ==
    IF Len(args) >= 2
    THEN [input_path |-> args[1], output_path |-> args[2]]
    ELSE IF Len(args) = 1
    THEN [input_path |-> args[1],
          output_path |-> IF t = "patch"
                          THEN Replace(args[1], DOT_ONNX, PATCHED_ONNX)
                          ELSE EMAP_BIN]
    ELSE [input_path |-> DefaultInput(t), output_path |-> DefaultOutput(t)]

\* a variant that downloads whenever no argument is given
NeedsDownloadAlways(t, args, fs) == Len(args) = 0

\* the else branch of main: no argument, and not os.path.exists(input_path)
NeedsDownload(t, args, fs) == Len(args) = 0 /\ DefaultInput(t) \notin DOMAIN fs

\* a variant that removes the partial file when the download fails
AfterInterruptCleanup(fs, path) == Remove(fs, path)

\* the file system after an exception inside "with open(output_path, 'wb')":
\* the file is closed and stays as written so far
AfterInterrupt(fs, path) == fs

Min(a, b) == IF a < b THEN a ELSE b

NoOrigin == [known |-> FALSE, model |-> EmptyModel]

Forget(outs, path) == [q \in (DOMAIN outs) \ {path} |-> outs[q]]

\* a process starts with arguments args and runs main up to the download test
Start(args) ==
    /\ pc \in {"idle", "exited"}
    /\ LET r == ResolvePaths(tool, args)
       IN  /\ argv' = args
           /\ input_path' = r.input_path
           /\ output_path' = r.output_path
           /\ origin' = IF r.input_path \in DOMAIN outputs
                        THEN [known |-> TRUE, model |-> outputs[r.input_path]]
                        ELSE NoOrigin
    /\ IF NeedsDownload(tool, args, files)
       THEN pc' = "download" /\ downloadCalled' = TRUE
       ELSE pc' = "check" /\ downloadCalled' = FALSE
    /\ files0' = files
    /\ fetched' = 0
    /\ model' = EmptyModel
    /\ source' = EmptyModel
    /\ patch_count' = 0
    /\ emap' = NoEmap
    /\ err' = "none"
    /\ exit_code' = -1
    /\ loadCalled' = FALSE
    /\ existed' = "unchecked"
    /\ saved' = FALSE
    /\ UNCHANGED <<files, remote, tool, outputs>>

\* download_model: requests.get or raise_for_status raises
DownloadRefused ==
    /\ pc = "download"
    /\ pc' = "exited"
    /\ err' = "NetworkError"
    /\ exit_code' = 1
    /\ UNCHANGED <<files, remote, tool, argv, input_path, output_path, fetched,
                   model, patch_count, emap, files0, source, downloadCalled,
                   loadCalled, existed, saved, outputs, origin>>

\* download_model: the response is good, open(output_path, 'wb')
DownloadOpen ==
    /\ pc = "download"
    /\ pc' = "chunks"
    /\ files' = Write(files, input_path, <<>>)
    /\ outputs' = Forget(outputs, input_path)
    /\ UNCHANGED <<remote, tool, argv, input_path, output_path, fetched, model,
                   patch_count, emap, err, exit_code, files0, source,
                   downloadCalled, loadCalled, existed, saved, origin>>

\* download_model: f.write(chunk) for the next chunk
DownloadChunk ==
    /\ pc = "chunks"
    /\ fetched < Len(remote)
    /\ LET n == Min(fetched + ChunkTokens, Len(remote))
       IN  /\ fetched' = n
           /\ files' = Write(files, input_path, SubSeq(remote, 1, n))
    /\ UNCHANGED <<remote, tool, pc, argv, input_path, output_path, model,
                   patch_count, emap, err, exit_code, files0, source,
                   downloadCalled, loadCalled, existed, saved, outputs, origin>>

\* download_model: the transfer breaks (or the process is interrupted) before
\* the last chunk
DownloadInterrupted ==
    /\ pc = "chunks"
    /\ fetched < Len(remote)
    /\ files' = AfterInterrupt(files, input_path)
    /\ pc' = "exited"
    /\ err' = "NetworkError"
    /\ exit_code' = 1
    /\ UNCHANGED <<remote, tool, argv, input_path, output_path, fetched, model,
                   patch_count, emap, files0, source, downloadCalled,
                   loadCalled, existed, saved, outputs, origin>>

\* download_model returns
DownloadComplete ==
    /\ pc = "chunks"
    /\ fetched = Len(remote)
    /\ pc' = "check"
    /\ UNCHANGED <<files, remote, tool, argv, input_path, output_path, fetched,
                   model, patch_count, emap, err, exit_code, files0, source,
                   downloadCalled, loadCalled, existed, saved, outputs, origin>>

\* if not os.path.exists(input_path): print; sys.exit(1)
CheckInput ==
    /\ pc = "check"
    /\ IF input_path \in DOMAIN files
       THEN /\ existed' = "yes"
            /\ pc' = "process"
            /\ UNCHANGED <<err, exit_code>>
       ELSE /\ existed' = "no"
            /\ pc' = "exited"
            /\ err' = "InputNotFound"
            /\ exit_code' = 1
    /\ UNCHANGED <<files, remote, tool, argv, input_path, output_path, fetched,
                   model, patch_count, emap, files0, source, downloadCalled,
                   loadCalled, saved, outputs, origin>>

\* patch_det10g.main: patch_count = patch_ceil_mode(input_path, output_path)
\* and the return of main; an exception ends the process with status 1
ProcessPatch ==
    /\ pc = "process"
    /\ tool = "patch"
    /\ LET r == patch_ceil_mode(files, input_path, output_path)
       IN  /\ loadCalled' = TRUE
           /\ err' = r.raised
           /\ exit_code' = IF r.raised = "none" THEN 0 ELSE 1
           /\ source' = r.source
           /\ model' = r.model
           /\ patch_count' = r.patch_count
           /\ saved' = r.saved
           /\ files' = r.fs
           /\ outputs' = IF r.saved
                         THEN Write(outputs, output_path, r.source)
                         ELSE outputs
    /\ pc' = "exited"
    /\ UNCHANGED <<remote, tool, argv, input_path, output_path, fetched, emap,
                   files0, downloadCalled, existed, origin>>

\* extract_emap.main: emap = extract_emap(input_path); save_binary(emap,
\* output_path); an exception ends the process with status 1
ProcessExtract ==
    /\ pc = "process"
    /\ tool = "extract"
    /\ LET r == extract_emap(files, input_path)
       IN  /\ loadCalled' = TRUE
           /\ err' = r.raised
           /\ exit_code' = IF r.raised = "none" THEN 0 ELSE 1
           /\ source' = r.source
           /\ model' = r.source
           /\ emap' = r.emap
           /\ saved' = (r.raised = "none")
           /\ files' = IF r.raised = "none"
                       THEN Write(files, output_path, save_binary(r.emap))
                       ELSE files
           /\ outputs' = IF r.raised = "none"
                         THEN Forget(outputs, output_path)
                         ELSE outputs
    /\ pc' = "exited"
    /\ UNCHANGED <<remote, tool, argv, input_path, output_path, fetched,
                   patch_count, files0, downloadCalled, existed, origin>>

\* between runs, the user deletes the downloaded model file
ExternalRemove ==
    /\ pc \in {"idle", "exited"}
    /\ DefaultInput(tool) \in DOMAIN files
    /\ files' = Remove(files, DefaultInput(tool))
    /\ outputs' = Forget(outputs, DefaultInput(tool))
    /\ pc' = "idle"
    /\ UNCHANGED <<remote, tool, argv, input_path, output_path, fetched, model,
                   patch_count, emap, err, exit_code, files0, source,
                   downloadCalled, loadCalled, existed, saved, origin>>

-----------------------------------------------------------------------------
(* Inputs: paths, graphs *)

\* "m.onnx"
M_ONNX == <<"m">> \o DOT_ONNX
\* "m.pb"
M_PB == <<"m", ".", "p", "b">>
\* "o" and "o2"
OUT == <<"o">>
OUT2 == <<"o", "2">>

UserInputs == {M_ONNX, M_PB}

ArgChoices ==
    {<<>>} \cup {<<p>> : p \in UserInputs} \cup {<<p, OUT>> : p \in UserInputs}

Attr(name, i) == [name |-> name, i |-> i]

AttrKinds ==
    {Attr("ceil_mode", 0), Attr("ceil_mode", 1), Attr("kernel_shape", 3), Attr("strides", 2)}

OpTypes == {"AveragePool", "MaxPool"}

\* the attribute lists of length k
RECURSIVE AttrLists(_)
AttrLists(k) ==
    IF k = 0 THEN {<<>>}
    ELSE {<<a>> \o r : a \in AttrKinds, r \in AttrLists(k - 1)}

\* the node lists of at most n nodes carrying at most t attributes in all
RECURSIVE NodeLists(_, _)
NodeLists(n, t) ==
    IF n = 0 THEN {<<>>}
    ELSE {<<>>} \cup
         UNION { { <<[op_type |-> o, attribute |-> al]>> \o r :
                     o \in OpTypes, al \in AttrLists(k), r \in NodeLists(n - 1, t - k) } :
                 k \in 0..t }

Initializer(name, dims, data_type) ==
    [name |-> name, dims |-> dims, data_type |-> data_type]

\* "emap", "e_map", "xEMap", "buff2fs"
InitNames ==
    { <<"e", "m", "a", "p">>, <<"e", "_", "m", "a", "p">>,
      <<"x", "E", "M", "a", "p">>, <<"b", "u", "f", "f", "2", "f", "s">> }

InitShapes ==
    { <<EmapDim, EmapDim>>, <<EmapDim, 256>>, <<EmapDim, EmapDim, 1>> }

InitKinds ==
    { Initializer(nm, sh, dt) : nm \in InitNames, sh \in InitShapes,
                                dt \in {"float32", "float64"} }

\* the initializer lists of at most n initializers
RECURSIVE InitLists(_)
InitLists(n) ==
    IF n = 0 THEN {<<>>}
    ELSE {<<>>} \cup {<<t>> \o r : t \in InitKinds, r \in InitLists(n - 1)}

Buff2fs == Initializer(<<"b", "u", "f", "f", "2", "f", "s">>, <<EmapDim, EmapDim>>, "float32")

Graph(nodes, initializers) == [graph |-> [node |-> nodes, initializer |-> initializers]]

\* the graphs the patcher is run on
PatchModels == { Graph(ns, <<Buff2fs>>) : ns \in NodeLists(MaxNodes, MaxAttrs) }

\* the graphs the extractor is run on
ExtractModels ==
    { Graph(<<[op_type |-> "Conv", attribute |-> <<>>]>>, it) : it \in InitLists(MaxInits) }

\* some graphs for the runs of main: one patchable node and the matrix found
\* by shape; nothing to patch and a name match of another shape; a node with
\* two ceil_mode entries and no matrix; no node and a name match after a
\* 512x512 tensor
SampleModels ==
    { Graph(<<[op_type |-> "AveragePool",
               attribute |-> <<Attr("kernel_shape", 3), Attr("ceil_mode", 1)>>],
              [op_type |-> "MaxPool", attribute |-> <<Attr("ceil_mode", 1)>>]>>,
            <<Buff2fs>>),
      Graph(<<[op_type |-> "AveragePool", attribute |-> <<Attr("kernel_shape", 3)>>]>>,
            <<Initializer(<<"e", "m", "a", "p">>, <<EmapDim, 256>>, "float32")>>),
      Graph(<<[op_type |-> "AveragePool",
               attribute |-> <<Attr("ceil_mode", 1), Attr("ceil_mode", 0)>>]>>,
            <<Initializer(<<"w">>, <<EmapDim>>, "float32")>>),
      Graph(<<>>,
            <<Initializer(<<"w">>, <<EmapDim, EmapDim>>, "float64"),
              Initializer(<<"e", "m", "a", "p">>, <<EmapDim, EmapDim>>, "float32")>>) }

NoFiles == [q \in {} |-> <<>>]

OneFile(path, content) == [q \in {path} |-> content]

-----------------------------------------------------------------------------
(* Specifications *)

InitRun(t, fs, rem) ==
    /\ tool = t
    /\ files = fs
    /\ remote = rem
    /\ pc = "idle"
    /\ argv = <<>>
    /\ input_path = DefaultInput(t)
    /\ output_path = DefaultOutput(t)
    /\ fetched = 0
    /\ model = EmptyModel
    /\ source = EmptyModel
    /\ patch_count = 0
    /\ emap = NoEmap
    /\ err = "none"
    /\ exit_code = -1
    /\ files0 = fs
    /\ downloadCalled = FALSE
    /\ loadCalled = FALSE
    /\ existed = "unchecked"
    /\ saved = FALSE
    /\ outputs = NoFiles
    /\ origin = NoOrigin

\* Runs of either tool's main, one after the other on the same directory
Init ==
    \E t \in Tools, g \in SampleModels :
        \E fs \in {NoFiles} \cup { OneFile(p, Serialize(l)) : p \in UserInputs, l \in SampleModels } :
            InitRun(t, fs, Serialize(g))

Next ==
    \/ \E args \in ArgChoices : Start(args)
    \/ DownloadRefused
    \/ DownloadOpen
    \/ DownloadChunk
    \/ DownloadInterrupted
    \/ DownloadComplete
    \/ CheckInput
    \/ ProcessPatch
    \/ ProcessExtract
    \/ ExternalRemove

Spec == Init /\ [][Next]_vars

\* The patcher run with two arguments on every graph within the bounds, and
\* again on that file or on the output "o" of an earlier run
InitPatch ==
    \E g \in PatchModels : InitRun("patch", OneFile(M_ONNX, Serialize(g)), <<>>)

NextPatch ==
    \/ \E p \in (DOMAIN files) \ {OUT2}, q \in {OUT, OUT2} : Start(<<p, q>>)
    \/ CheckInput
    \/ ProcessPatch

SpecPatch == InitPatch /\ [][NextPatch]_vars

\* The extractor run with two arguments on every graph within the bounds
InitExtract ==
    \E g \in ExtractModels : InitRun("extract", OneFile(M_ONNX, Serialize(g)), <<>>)

NextExtract ==
    \/ Start(<<M_ONNX, OUT>>)
    \/ CheckInput
    \/ ProcessExtract

SpecExtract == InitExtract /\ [][NextExtract]_vars

-----------------------------------------------------------------------------
(* Claims *)

IsAvg(nd) == nd.op_type = "AveragePool"

CeilCount(nd) == Len(SelectSeq(nd.attribute, LAMBDA a : a.name = "ceil_mode"))

WithoutCeil(attribute) == SelectSeq(attribute, LAMBDA a : a.name # "ceil_mode")

AtMostOneCeil(m) ==
    \A k \in DOMAIN m.graph.node : IsAvg(m.graph.node[k]) => CeilCount(m.graph.node[k]) <= 1

CeilNodes(m) ==
    {k \in DOMAIN m.graph.node : IsAvg(m.graph.node[k]) /\ CeilCount(m.graph.node[k]) > 0}

SetMin(S) == CHOOSE x \in S : \A y \in S : x <= y

At(fs, path) == IF path \in DOMAIN fs THEN <<fs[path]>> ELSE <<>>

ByName(m) == {k \in DOMAIN m.graph.initializer : NameMatch(m.graph.initializer[k])}

ByShape(m) == {k \in DOMAIN m.graph.initializer : ShapeMatch(m.graph.initializer[k])}

\* patch_ceil_mode has loaded its input and returned
PatchReturned == pc = "exited" /\ tool = "patch" /\ loadCalled /\ err = "none"

\* extract_emap has loaded its input and either returned or raised ValueError
ExtractSearched == pc = "exited" /\ tool = "extract" /\ loadCalled /\ err # "ModelLoadError"

\* the bytes at the default input path are a non-empty proper prefix of the download
Truncated(b) == b # <<>> /\ Len(b) < Len(remote) /\ b = SubSeq(remote, 1, Len(b))

\* C1: whenever some initializer matches by name, extract_emap returns the
\* first name match in document order, even when a [512,512] initializer of
\* another name comes earlier; the first [512,512] initializer is returned
\* only when no initializer matches by name.
C1_NameBeforeShape ==
    ExtractSearched =>
        /\ ByName(source) # {} =>
               emap.found /\ emap.index = SetMin(ByName(source))
        /\ (ByName(source) = {} /\ ByShape(source) # {}) =>
               emap.found /\ emap.index = SetMin(ByShape(source))

\* C2: whenever the extractor run succeeds, the tensor written is 2-dimensional
\* with both dimensions 512 and the output file holds exactly 512*512 float32
\* elements (1,048,576 bytes) and nothing else.
C2_OutputIs512x512 ==
    (pc = "exited" /\ tool = "extract" /\ saved) =>
        /\ Len(emap.shape) = 2
        /\ emap.shape[1] = EmapDim
        /\ emap.shape[2] = EmapDim
        /\ files[output_path] = <<Tok("raw", "float32", <<>>, 1048576)>>

C4_NoCeilModeLeft ==
    PatchReturned =>
        \A k \in DOMAIN model.graph.node :
            IsAvg(model.graph.node[k]) => CeilCount(model.graph.node[k]) = 0

\* C4 amended: patch_ceil_mode removes one ceil_mode entry, the first, from
\* every AveragePool node that carries any; so no AveragePool node carries
\* ceil_mode afterwards if none carried more than one, and a node with k > 1
\* entries keeps k - 1.
C4_OneCeilModeRemoved ==
    PatchReturned =>
        LET old == source.graph.node
            new == model.graph.node
        IN  /\ Len(new) = Len(old)
            /\ \A k \in DOMAIN old :
                   IsAvg(old[k]) =>
                       /\ k \in DOMAIN new
                       /\ CeilCount(new[k]) = IF CeilCount(old[k]) > 0
                                              THEN CeilCount(old[k]) - 1
                                              ELSE 0
            /\ AtMostOneCeil(source) =>
                   \A k \in DOMAIN new : IsAvg(new[k]) => CeilCount(new[k]) = 0

C4_Witness ==
    /\ PatchReturned
    /\ AtMostOneCeil(source)
    /\ Cardinality(CeilNodes(source)) = 2
    /\ CeilNodes(model) = {}

\* C5 as stated: a run whose input is the file F written by an earlier run
\* returns patch count 0 and yields an output file byte-identical to F.
C5_RerunWritesSameFile ==
    (pc = "exited" /\ tool = "patch" /\ origin.known) =>
        /\ patch_count = 0
        /\ output_path \in DOMAIN files
        /\ files[output_path] = files0[input_path]

\* C5 amended: when no AveragePool node of the first run's input graph carries
\* more than one ceil_mode, a run whose input is the file F written by that
\* run returns patch count 0 and writes no file: every file, F included, stays
\* byte-identical, and the graph it loaded re-encodes to the bytes of F.
C5_RerunPatchesNothing ==
    (pc = "exited" /\ tool = "patch" /\ origin.known /\ AtMostOneCeil(origin.model)) =>
        /\ err = "none"
        /\ patch_count = 0
        /\ ~saved
        /\ files = files0
        /\ Serialize(model) = files0[input_path]

C5_Witness ==
    /\ pc = "exited"
    /\ tool = "patch"
    /\ origin.known
    /\ AtMostOneCeil(origin.model)
    /\ patch_count = 0
    /\ output_path \notin DOMAIN files

\* C6: extract_emap raises the not-found ValueError exactly when no initializer
\* matches by name and none has shape [512,512]; otherwise it returns a tensor.
C6_NotFoundExactly ==
    ExtractSearched =>
        /\ (err = "ValueError") <=> (ByName(source) = {} /\ ByShape(source) = {})
        /\ (err = "none") <=> emap.found
        /\ emap.found => emap.index \in ByName(source) \cup ByShape(source)

C6_Witness ==
    /\ ExtractSearched
    /\ err = "ValueError"
    /\ Len(source.graph.initializer) >= 2

\* C7: when the patcher finds no AveragePool node carrying ceil_mode it returns
\* 0, leaves the output path as it was before the run and main ends with exit
\* status 0; the output file is written if and only if the count is positive.
C7_ZeroPatchesWriteNothing ==
    PatchReturned =>
        /\ (patch_count = 0) <=> (CeilNodes(source) = {})
        /\ patch_count = 0 =>
               /\ At(files, output_path) = At(files0, output_path)
               /\ exit_code = 0
        /\ saved <=> patch_count > 0
        /\ patch_count > 0 =>
               /\ output_path \in DOMAIN files
               /\ files[output_path] = Serialize(model)

C7_Witness ==
    /\ PatchReturned
    /\ CeilNodes(source) = {}
    /\ patch_count = 0
    /\ output_path \notin DOMAIN files
    /\ exit_code = 0

\* C8: download_model is called only with no argument and no file at the
\* default input path, and before any load; never with one or two arguments;
\* and when the input path does not exist at the existence check the process
\* exits non-zero without loading a model or writing its output.
C8_DownloadAndMissingInput ==
    /\ downloadCalled => (argv = <<>> /\ DefaultInput(tool) \notin DOMAIN files0)
    /\ pc \in {"download", "chunks"} => (downloadCalled /\ ~loadCalled)
    /\ Len(argv) >= 1 => ~downloadCalled
    /\ (pc = "exited" /\ existed = "no") =>
           /\ exit_code # 0
           /\ ~loadCalled
           /\ ~saved
           /\ At(files, output_path) = At(files0, output_path)
    /\ loadCalled => existed = "yes"

C8_Witness ==
    /\ pc = "exited"
    /\ downloadCalled
    /\ loadCalled
    /\ exit_code = 0

C10_OutputIsNotInput ==
    (pc = "exited" /\ tool = "patch" /\ Len(argv) = 1 /\ saved) =>
        /\ output_path # input_path
        /\ At(files, input_path) = At(files0, input_path)

====
